---- MODULE Spec2Model ----
(***************************************************************************)
(* A model of log_monitor.py: parse_log (csv rows -> entries),             *)
(* monitor_jobs (START/END matching per pid) and log_report (threshold     *)
(* classification written to the report file).                             *)
(*                                                                         *)
(* Strings are sequences of one-character strings.  A datetime produced by *)
(* strptime("%H:%M:%S") always carries the date 1900-01-01, so it is       *)
(* modelled by its number of seconds since midnight; a timedelta is a      *)
(* (possibly negative) number of seconds.                                  *)
(***************************************************************************)
EXTENDS Integers, Sequences, FiniteSets, TLC

VARIABLES
    lines,      \* the list of raw lines handed to parse_log
    pos,        \* csv.reader: index of the next line the reader will consume
    entries,    \* parse_log's result list / monitor_jobs' argument
    entryLine,  \* history: for each entry, the index of the first line of its row
    k,          \* monitor_jobs: index of the next entry of the for loop
    jobs,       \* monitor_jobs: the open jobs, a mapping pid -> open job
    reports,    \* monitor_jobs' result list / log_report's argument
    j,          \* log_report: index of the next job of the for loop
    file,       \* the content of the report file, a sequence of written strings
    pc,         \* where the program is
    err,        \* the exception that ended the run, "none" while there is none
    prev        \* history: what the call before this one left behind

vars == <<prev, lines, pos, entries, entryLine, k, jobs, reports, j, file, pc, err>>

----------------------------------------------------------------------------
(* Bounds of the model *)

MaxLines == 3
MaxEntries == 4
MaxReports == 3
MaxCallEntries == 2

----------------------------------------------------------------------------
(* Program constants *)

WARNING_THRESHOLD == 300
ERROR_THRESHOLD == 600

START == <<"S", "T", "A", "R", "T">>
END == <<"E", "N", "D">>

----------------------------------------------------------------------------
(* str.strip(), str.upper()                                                *)

Whitespace == {" ", "\t", "\n", "\r", "\f"}

RECURSIVE lstrip(_)
lstrip(s) == IF s # <<>> /\ Head(s) \in Whitespace THEN lstrip(Tail(s)) ELSE s

RECURSIVE rstrip(_)
rstrip(s) ==
    IF s # <<>> /\ s[Len(s)] \in Whitespace
    THEN rstrip(SubSeq(s, 1, Len(s) - 1))
    ELSE s

strip(s) == rstrip(lstrip(s))

LowerCase == <<"a", "b", "c", "d", "e", "f", "g", "h", "i", "j", "k", "l", "m",
               "n", "o", "p", "q", "r", "s", "t", "u", "v", "w", "x", "y", "z">>
UpperCase == <<"A", "B", "C", "D", "E", "F", "G", "H", "I", "J", "K", "L", "M",
               "N", "O", "P", "Q", "R", "S", "T", "U", "V", "W", "X", "Y", "Z">>

upperChar(c) ==
    IF \E i \in 1..Len(LowerCase) : LowerCase[i] = c
    THEN UpperCase[CHOOSE i \in 1..Len(LowerCase) : LowerCase[i] = c]
    ELSE c

upper(s) == [i \in 1..Len(s) |-> upperChar(s[i])]

----------------------------------------------------------------------------
(* datetime.strptime(s, "%H:%M:%S")                                        *)
(* The format compiles to the regular expression                           *)
(*   (2[0-3]|[0-1]\d|\d):([0-5]\d|\d):(6[0-1]|[0-5]\d|\d)                    *)
(* which must consume the whole string; a second of 60 or 61 passes the    *)
(* expression and is then refused by the datetime constructor.             *)

DigitChars == <<"0", "1", "2", "3", "4", "5", "6", "7", "8", "9">>

IsDigit(c) == \E i \in 1..Len(DigitChars) : DigitChars[i] = c
DigitVal(c) == (CHOOSE i \in 1..Len(DigitChars) : DigitChars[i] = c) - 1

\* A token of one or two digits: its value; anything else: -1
NumToken(t) ==
    IF Len(t) = 1 /\ IsDigit(t[1]) THEN DigitVal(t[1])
    ELSE IF Len(t) = 2 /\ IsDigit(t[1]) /\ IsDigit(t[2])
         THEN 10 * DigitVal(t[1]) + DigitVal(t[2])
         ELSE -1

ValueError == -1

\* the seconds since midnight, or ValueError
strptime(s) ==
    LET colons == {i \in 1..Len(s) : s[i] = ":"}
    IN  IF Cardinality(colons) # 2 THEN ValueError
        ELSE LET c1 == CHOOSE i \in colons : \A i2 \in colons : i <= i2
                 c2 == CHOOSE i \in colons : \A i2 \in colons : i2 <= i
                 H  == NumToken(SubSeq(s, 1, c1 - 1))
                 M  == NumToken(SubSeq(s, c1 + 1, c2 - 1))
                 S  == NumToken(SubSeq(s, c2 + 1, Len(s)))
             IN  IF H \in 0..23 /\ M \in 0..59 /\ S \in 0..59
                 THEN 3600 * H + 60 * M + S
                 ELSE ValueError

----------------------------------------------------------------------------
(* csv.reader with the default ("excel") dialect: delimiter ',',           *)
(* quotechar '"', doublequote, no escapechar, no skipinitialspace,         *)
(* QUOTE_MINIMAL, not strict.  The reader is the character automaton of    *)
(* the csv module; EOL is the end-of-line mark the reader feeds itself     *)
(* after the last character of each line.                                  *)

EOL == "EOL"
IsNewline(c) == c \in {"\n", "\r"}

parse_reset == [state |-> "START_RECORD", field |-> <<>>, fields |-> <<>>, error |-> FALSE]

parse_save_field(st) == [st EXCEPT !.fields = Append(@, st.field), !.field = <<>>]
parse_add_char(st, c) == [st EXCEPT !.field = Append(@, c)]
AfterLineEnd(c) == IF c = EOL THEN "START_RECORD" ELSE "EAT_CRNL"

StartField(st, c) ==
    IF IsNewline(c) \/ c = EOL
    THEN [parse_save_field(st) EXCEPT !.state = AfterLineEnd(c)]
    ELSE IF c = "\"" THEN [st EXCEPT !.state = "IN_QUOTED_FIELD"]
    ELSE IF c = "," THEN [parse_save_field(st) EXCEPT !.state = "START_FIELD"]
    ELSE [parse_add_char(st, c) EXCEPT !.state = "IN_FIELD"]

parse_process_char(st, c) ==
    CASE st.state = "START_RECORD" ->
            IF c = EOL THEN st                        \* empty line: the row []
            ELSE IF IsNewline(c) THEN [st EXCEPT !.state = "EAT_CRNL"]
            ELSE StartField(st, c)
      [] st.state = "START_FIELD" -> StartField(st, c)
      [] st.state = "IN_FIELD" ->
            IF IsNewline(c) \/ c = EOL
            THEN [parse_save_field(st) EXCEPT !.state = AfterLineEnd(c)]
            ELSE IF c = "," THEN [parse_save_field(st) EXCEPT !.state = "START_FIELD"]
            ELSE parse_add_char(st, c)
      [] st.state = "IN_QUOTED_FIELD" ->
            IF c = EOL THEN st
            ELSE IF c = "\"" THEN [st EXCEPT !.state = "QUOTE_IN_QUOTED_FIELD"]
            ELSE parse_add_char(st, c)
      [] st.state = "QUOTE_IN_QUOTED_FIELD" ->
            IF c = "\"" THEN [parse_add_char(st, c) EXCEPT !.state = "IN_QUOTED_FIELD"]
            ELSE IF c = "," THEN [parse_save_field(st) EXCEPT !.state = "START_FIELD"]
            ELSE IF IsNewline(c) \/ c = EOL
                 THEN [parse_save_field(st) EXCEPT !.state = AfterLineEnd(c)]
            ELSE [parse_add_char(st, c) EXCEPT !.state = "IN_FIELD"]
      [] st.state = "EAT_CRNL" ->
            IF IsNewline(c) THEN st
            ELSE IF c = EOL THEN [st EXCEPT !.state = "START_RECORD"]
            ELSE [st EXCEPT !.error = TRUE]           \* csv.Error: new-line character
                                                      \* seen in unquoted field

\* one line through the automaton: its characters, then EOL
RECURSIVE ProcessChars(_, _, _)
ProcessChars(st, line, i) ==
    IF st.error THEN st
    ELSE IF i > Len(line) THEN parse_process_char(st, EOL)
    ELSE ProcessChars(parse_process_char(st, line[i]), line, i + 1)

\* Reader.__next__: lines are consumed until the automaton is back in
\* START_RECORD (a row is complete) or the input is exhausted.
\* The result: what |-> "row" (with the row and the next line to read),
\* "stop" (StopIteration) or "error" (csv.Error).
RECURSIVE ReadLines(_, _, _)
ReadLines(st, ls, p) ==
    IF p > Len(ls)
    THEN IF st.field # <<>> \/ st.state = "IN_QUOTED_FIELD"
         THEN [what |-> "row", row |-> parse_save_field(st).fields, next |-> p]
         ELSE [what |-> "stop", row |-> <<>>, next |-> p]
    ELSE LET st2 == ProcessChars(st, ls[p], 1)
         IN  IF st2.error THEN [what |-> "error", row |-> <<>>, next |-> p + 1]
             ELSE IF st2.state = "START_RECORD"
                  THEN [what |-> "row", row |-> st2.fields, next |-> p + 1]
                  ELSE ReadLines(st2, ls, p + 1)

Reader_next(ls, p) == ReadLines(parse_reset, ls, p)

----------------------------------------------------------------------------
(* str(timedelta) and the report line                                      *)

IntAbs(n) == IF n < 0 THEN -n ELSE n

\* "%d" of a non-negative integer
RECURSIVE NatStr(_)
NatStr(n) ==
    IF n < 10 THEN <<DigitChars[n + 1]>>
    ELSE NatStr(n \div 10) \o <<DigitChars[(n % 10) + 1]>>

IntStr(n) == IF n < 0 THEN <<"-">> \o NatStr(-n) ELSE NatStr(n)

\* "%02d" of a number in 0..59
Pad2(n) == <<DigitChars[(n \div 10) + 1], DigitChars[(n % 10) + 1]>>

\* "%d:%d:%d" in place of "%d:%02d:%02d"
timedelta_str_unpadded(d) ==
    NatStr((d % 86400) \div 3600) \o <<":">> \o NatStr(((d % 86400) \div 60) % 60)
        \o <<":">> \o NatStr(d % 60)

\* timedelta.__str__: a timedelta is normalised to days and 0 <= seconds < 86400
timedelta_str(d) ==
    LET days == d \div 86400
        secs == d % 86400
        mm   == (secs \div 60) % 60
        hh   == (secs \div 60) \div 60
        ss   == secs % 60
        s    == IntStr(hh) \o <<":">> \o Pad2(mm) \o <<":">> \o Pad2(ss)
        plural == IF IntAbs(days) # 1 THEN <<"s">> ELSE <<>>
    IN  IF days # 0
        THEN IntStr(days) \o <<" ", "d", "a", "y">> \o plural \o <<",", " ">> \o s
        ELSE s

\* f"{severity}: Job {job['pid']} ({job['description']}) took {duration_str}\n",
\* kept as the pieces the f-string concatenates
ReportLine(severity, job, duration_str) ==
    <<severity, ": Job ", job.pid, " (", job.description, ") took ", duration_str, "\n">>

----------------------------------------------------------------------------
(* dict operations of monitor_jobs                                         *)

EmptyDict == [p \in {} |-> <<>>]
\* jobs.setdefault(pid, ...): an open job is not overwritten
SetItemFirstWins(d, key, v) ==
    [p \in (DOMAIN d) \cup {key} |-> IF p = key /\ key \notin DOMAIN d THEN v ELSE d[p]]
SetItem(d, key, v) == [p \in (DOMAIN d) \cup {key} |-> IF p = key THEN v ELSE d[p]]
\* del jobs[pid] forgotten
DelItemKept(d, key) == d
\* jobs.clear() in place of del jobs[pid]
DelItemAll(d, key) == [p \in {} |-> <<>>]
DelItem(d, key) == [p \in (DOMAIN d) \ {key} |-> d[p]]

----------------------------------------------------------------------------
(* Inputs                                                                  *)

Join(fields) ==
    LET RECURSIVE J(_)
        J(i) == IF i > Len(fields) THEN <<>>
                ELSE (IF i > 1 THEN <<",">> ELSE <<>>) \o fields[i] \o J(i + 1)
    IN  J(1)

T_000000 == <<"0", "0", ":", "0", "0", ":", "0", "0">>
T_000001 == <<"0", "0", ":", "0", "0", ":", "0", "1">>
T_000501 == <<"0", "0", ":", "0", "5", ":", "0", "1">>
T_001001 == <<"0", "0", ":", "1", "0", ":", "0", "1">>
T_240000 == <<"2", "4", ":", "0", "0", ":", "0", "0">>
Bad      == <<"b", "a", "d">>

\* The raw lines a batch is drawn from
RawLines == {
    Join(<<T_000000, <<"A">>, START, <<"1">>>>),          \* 00:00:00,A,START,1
    Join(<<T_000501, <<"B">>, END, <<"1">>>>) \o <<"\n">>, \* 00:05:01,B,END,1\n
    Join(<<T_001001, <<"A">>, END, <<"1">>>>),            \* 00:10:01,A,END,1
    Join(<<<<" ">> \o T_000001 \o <<" ">>, <<" ", "b", " ">>,
           <<"s", "t", "a", "r", "t">>, <<" ", "1", " ">>>>),
                                                          \* ' 00:00:01 , b ,start, 1 '
    Join(<<T_000000, <<"A">>, START, <<"1">>, <<"x">>>>), \* 00:00:00,A,START,1,x
    Join(<<Bad, <<"A">>, END, <<"1">>, <<"x">>>>),        \* bad,A,END,1,x
    Join(<<T_000000, <<"A">>, START>>),                   \* 00:00:00,A,START
    Join(<<Bad, <<"A">>, END, <<"1">>>>),                 \* bad,A,END,1
    <<"\"", "x">>,                                        \* "x   (a quote left open)
    Join(<<T_000000, <<"\"", "A", ",", "B", "\"">>, START, <<"2">>>>),
                                                          \* 00:00:00,"A,B",START,2
    <<>>,                                                 \* the empty line
    Join(<<T_240000, <<"A">>, END, <<"2">>>>),            \* 24:00:00,A,END,2
    Join(<<T_000000, <<"A">>, <<"N", "O", "P">>, <<"1">>>>),  \* 00:00:00,A,NOP,1
    Join(<<T_000000, <<"A", "\r", "B">>, END, <<"1">>>>)  \* 00:00:00,A\rB,END,1
}

SeqsUpTo(S, n) == UNION {[1..m -> S] : m \in 0..n}

\* The entries monitor_jobs is called on directly (as the tests call it)
SampleEntries ==
    {[time |-> t[1], description |-> t[2], event |-> e, pid |-> p] :
        t \in {<<0, <<"A">>>>, <<300, <<"B">>>>}, e \in {START}, p \in {<<"1">>, <<"2">>}}
    \cup
    {[time |-> t[1], description |-> t[2], event |-> e, pid |-> p] :
        t \in {<<601, <<"A">>>>, <<0, <<"B">>>>}, e \in {END}, p \in {<<"1">>, <<"2">>}}
    \cup
    {[time |-> 300, description |-> <<"A">>, event |-> <<"N", "O", "P">>, pid |-> <<"1">>]}

\* The job reports log_report is called on directly (as the tests call it)
SampleReports ==
    {[pid |-> <<"1">>, description |-> <<"A">>, start_time |-> s, end_time |-> e,
      duration |-> e - s] : s \in {0, 1}, e \in {0, 301, 361, 601, 661, 86399}}

\* What the report file may hold before the run
OldLine == ReportLine("ERROR", [pid |-> <<"9">>, description |-> <<"o", "l", "d">>],
                      timedelta_str(0))
PriorFiles == {<<>>, <<OldLine>>}

----------------------------------------------------------------------------
(* Initial states                                                          *)

\* no call came before: no pid left open, nothing written
NoCall == [later |-> FALSE, open |-> {}, file |-> <<>>]

\* main(): parse_log is about to run on a batch of raw lines
Init ==
    /\ lines \in SeqsUpTo(RawLines, MaxLines)
    /\ pos = 1
    /\ entries = <<>>
    /\ entryLine = <<>>
    /\ k = 1
    /\ jobs = EmptyDict
    /\ reports = <<>>
    /\ j = 1
    /\ file \in PriorFiles
    /\ pc = "parse"
    /\ err = "none"
    /\ prev = NoCall

\* monitor_jobs(entries) called on its own: jobs = {}, reports = []
InitJobs ==
    /\ lines = <<>>
    /\ pos = 1
    /\ entries \in SeqsUpTo(SampleEntries, MaxEntries)
    /\ entryLine = <<>>
    /\ k = 1
    /\ jobs = EmptyDict
    /\ reports = <<>>
    /\ j = 1
    /\ file \in PriorFiles
    /\ pc = "match"
    /\ err = "none"
    /\ prev = NoCall

\* monitor_jobs(entries), then log_report, called again and again on the same
\* report file
InitCalls ==
    /\ lines = <<>>
    /\ pos = 1
    /\ entries \in SeqsUpTo(SampleEntries, MaxCallEntries)
    /\ entryLine = <<>>
    /\ k = 1
    /\ jobs = EmptyDict
    /\ reports = <<>>
    /\ j = 1
    /\ file \in PriorFiles
    /\ pc = "match"
    /\ err = "none"
    /\ prev = NoCall

\* log_report(reports, report_file) called on its own
InitReport ==
    /\ lines = <<>>
    /\ pos = 1
    /\ entries = <<>>
    /\ entryLine = <<>>
    /\ k = 1
    /\ jobs = EmptyDict
    /\ reports \in SeqsUpTo(SampleReports, MaxReports)
    /\ j = 1
    /\ file \in PriorFiles
    /\ pc = "open"
    /\ err = "none"
    /\ prev = NoCall

----------------------------------------------------------------------------
(* parse_log: one action per pass of "for row in reader"                   *)

NextRow == Reader_next(lines, pos)

\* the exception leaves parse_log and main: the run is over
Raise(exception) ==
    /\ pc' = "aborted"
    /\ err' = exception

\* len(row) < 4: the row is skipped
ParseSkipShort ==
    /\ pc = "parse"
    /\ NextRow.what = "row"
    /\ Len(NextRow.row) < 4
    /\ pos' = NextRow.next
    /\ UNCHANGED <<prev, lines, entries, entryLine, k, jobs, reports, j, file, pc, err>>

\* time_str, description, event, pid = row: a row of more than four fields
\* cannot be unpacked into four names, and the ValueError is raised outside
\* the try block
ParseUnpackError ==
    /\ pc = "parse"
    /\ NextRow.what = "row"
    /\ Len(NextRow.row) > 4
    /\ pos' = NextRow.next
    /\ Raise("ValueError")
    /\ UNCHANGED <<prev, lines, entries, entryLine, k, jobs, reports, j, file>>

\* strptime raises ValueError, which is caught: the row is skipped
ParseSkipBadTime ==
    /\ pc = "parse"
    /\ NextRow.what = "row"
    /\ Len(NextRow.row) = 4
    /\ strptime(strip(NextRow.row[1])) = ValueError
    /\ pos' = NextRow.next
    /\ UNCHANGED <<prev, lines, entries, entryLine, k, jobs, reports, j, file, pc, err>>

NewEntry(row) ==
    [time        |-> strptime(strip(row[1])),
     description |-> strip(row[2]),
     event       |-> upper(strip(row[3])),
     pid         |-> strip(row[4])]

ParseAppend ==
    /\ pc = "parse"
    /\ NextRow.what = "row"
    /\ Len(NextRow.row) = 4
    /\ strptime(strip(NextRow.row[1])) # ValueError
    /\ entries' = Append(entries, NewEntry(NextRow.row))
    /\ entryLine' = Append(entryLine, pos)
    /\ pos' = NextRow.next
    /\ UNCHANGED <<prev, lines, k, jobs, reports, j, file, pc, err>>

\* the reader raises csv.Error, which nothing catches
ParseCsvError ==
    /\ pc = "parse"
    /\ NextRow.what = "error"
    /\ pos' = NextRow.next
    /\ Raise("csv.Error")
    /\ UNCHANGED <<prev, lines, entries, entryLine, k, jobs, reports, j, file>>

\* the reader is exhausted: parse_log returns entries and main calls
\* monitor_jobs(entries), which starts with jobs = {} and reports = []
ParseReturn ==
    /\ pc = "parse"
    /\ NextRow.what = "stop"
    /\ pc' = "match"
    /\ k' = 1
    /\ jobs' = EmptyDict
    /\ reports' = <<>>
    /\ UNCHANGED <<prev, lines, pos, entries, entryLine, j, file, err>>

----------------------------------------------------------------------------
(* monitor_jobs: one action per pass of "for entry in entries"             *)

OpenJob(entry) == [start_time |-> entry.time, description |-> entry.description]

\* the description taken from the END entry
CompletedJobEndDescription(entry, open) ==
    [pid         |-> entry.pid,
     description |-> entry.description,
     start_time  |-> open.start_time,
     end_time    |-> entry.time,
     duration    |-> entry.time - open.start_time]

\* a negative duration clamped to zero
CompletedJobClamped(entry, open) ==
    [pid         |-> entry.pid,
     description |-> open.description,
     start_time  |-> open.start_time,
     end_time    |-> entry.time,
     duration    |-> IF entry.time < open.start_time THEN 0
                     ELSE entry.time - open.start_time]

CompletedJob(entry, open) ==
    [pid         |-> entry.pid,
     description |-> open.description,
     start_time  |-> open.start_time,
     end_time    |-> entry.time,
     duration    |-> entry.time - open.start_time]

\* reports.insert(0, ...) in place of reports.append(...)
PrependReport(rs, job) == <<job>> \o rs
\* reports.append(...)
AppendReport(rs, job) == Append(rs, job)

\* else: in place of if entry["event"] == "START"
IsStartUnlessEnd(entry) == entry.event # END
IsStart(entry) == entry.event = START
\* an END paired with its START by description as well as by pid
IsMatchedEndByDescription(entry, open) ==
    /\ entry.event = END
    /\ entry.pid \in DOMAIN open
    /\ open[entry.pid].description = entry.description
IsMatchedEnd(entry, open) == entry.event = END /\ entry.pid \in DOMAIN open

MatchStart ==
    /\ pc = "match"
    /\ k <= Len(entries)
    /\ IsStart(entries[k])
    /\ jobs' = SetItem(jobs, entries[k].pid, OpenJob(entries[k]))
    /\ k' = k + 1
    /\ UNCHANGED <<prev, lines, pos, entries, entryLine, reports, j, file, pc, err>>

MatchEnd ==
    /\ pc = "match"
    /\ k <= Len(entries)
    /\ ~IsStart(entries[k])
    /\ IsMatchedEnd(entries[k], jobs)
    /\ reports' = AppendReport(reports, CompletedJob(entries[k], jobs[entries[k].pid]))
    /\ jobs' = DelItem(jobs, entries[k].pid)
    /\ k' = k + 1
    /\ UNCHANGED <<prev, lines, pos, entries, entryLine, j, file, pc, err>>

\* neither branch is taken: an END with no open job, or another event
MatchNeither ==
    /\ pc = "match"
    /\ k <= Len(entries)
    /\ ~IsStart(entries[k])
    /\ ~IsMatchedEnd(entries[k], jobs)
    /\ k' = k + 1
    /\ UNCHANGED <<prev, lines, pos, entries, entryLine, jobs, reports, j, file, pc, err>>

\* monitor_jobs as a function of its argument: the loop from entry i on, with
\* the open jobs jb and the reports rs
RECURSIVE MonitorLoop(_, _, _, _)
MonitorLoop(es, i, jb, rs) ==
    IF i > Len(es) THEN rs
    ELSE IF IsStart(es[i])
         THEN MonitorLoop(es, i + 1, SetItem(jb, es[i].pid, OpenJob(es[i])), rs)
    ELSE IF IsMatchedEnd(es[i], jb)
         THEN MonitorLoop(es, i + 1, DelItem(jb, es[i].pid),
                          AppendReport(rs, CompletedJob(es[i], jb[es[i].pid])))
    ELSE MonitorLoop(es, i + 1, jb, rs)

monitor_jobs(es) == MonitorLoop(es, 1, EmptyDict, <<>>)

\* a dictionary kept from one call to the next (a module-level jobs, or a
\* mutable default argument) in place of the local jobs = {}
CarriedJobs(old) == old
\* jobs: Dict[...] = {} at the head of monitor_jobs, whatever an earlier call left
FreshJobs(old) == EmptyDict

\* a later call: monitor_jobs is entered again, on other entries, with the
\* report file as the call before left it
MonitorJobsAgain ==
    /\ pc = "done"
    /\ entries' \in SeqsUpTo(SampleEntries, MaxCallEntries)
    /\ k' = 1
    /\ jobs' = FreshJobs(jobs)
    /\ reports' = <<>>
    /\ pc' = "match"
    /\ prev' = [later |-> TRUE, open |-> DOMAIN jobs, file |-> file]
    /\ UNCHANGED <<lines, pos, entryLine, j, file, err>>

\* the loop is over: monitor_jobs returns reports and main calls log_report
MatchReturn ==
    /\ pc = "match"
    /\ k > Len(entries)
    /\ pc' = "open"
    /\ UNCHANGED <<prev, lines, pos, entries, entryLine, k, jobs, reports, j, file, err>>

----------------------------------------------------------------------------
(* log_report: open(report_file, "w"), then one action per pass of         *)
(* "for job in reports"                                                    *)

\* open(report_file, "a"): the content is kept
OpenForAppending(content) == content
\* open(report_file, "w") truncates the file
OpenForWriting(content) == <<>>

\* f.write(...) putting the line before the lines written so far
WriteInFront(content, line) == <<line>> \o content
\* f.write(...)
Write(content, line) == Append(content, line)

ReportOpen ==
    /\ pc = "open"
    /\ file' = OpenForWriting(file)
    /\ j' = 1
    /\ pc' = "report"
    /\ UNCHANGED <<prev, lines, pos, entries, entryLine, k, jobs, reports, err>>

\* open raises OSError (the sink cannot be written): the file is left as it was
ReportOpenFails ==
    /\ pc = "open"
    /\ Raise("OSError")
    /\ UNCHANGED <<prev, lines, pos, entries, entryLine, k, jobs, reports, j, file>>

\* >= in place of >
IsErrorAtThreshold(job) == job.duration >= ERROR_THRESHOLD
IsError(job) == job.duration > ERROR_THRESHOLD
IsWarning(job) == job.duration > WARNING_THRESHOLD

ReportError ==
    /\ pc = "report"
    /\ j <= Len(reports)
    /\ IsError(reports[j])
    /\ file' = Write(file, ReportLine("ERROR", reports[j], timedelta_str(reports[j].duration)))
    /\ j' = j + 1
    /\ UNCHANGED <<prev, lines, pos, entries, entryLine, k, jobs, reports, pc, err>>

ReportWarning ==
    /\ pc = "report"
    /\ j <= Len(reports)
    /\ ~IsError(reports[j])
    /\ IsWarning(reports[j])
    /\ file' = Write(file, ReportLine("WARNING", reports[j], timedelta_str(reports[j].duration)))
    /\ j' = j + 1
    /\ UNCHANGED <<prev, lines, pos, entries, entryLine, k, jobs, reports, pc, err>>

ReportNothing ==
    /\ pc = "report"
    /\ j <= Len(reports)
    /\ ~IsError(reports[j])
    /\ ~IsWarning(reports[j])
    /\ j' = j + 1
    /\ UNCHANGED <<prev, lines, pos, entries, entryLine, k, jobs, reports, file, pc, err>>

\* the loop is over and the with block closes the file
ReportClose ==
    /\ pc = "report"
    /\ j > Len(reports)
    /\ pc' = "done"
    /\ UNCHANGED <<prev, lines, pos, entries, entryLine, k, jobs, reports, j, file, err>>

----------------------------------------------------------------------------
(* Specifications                                                          *)

NextReport ==
    \/ ReportOpen
    \/ ReportOpenFails
    \/ ReportError
    \/ ReportWarning
    \/ ReportNothing
    \/ ReportClose

NextJobs ==
    \/ MatchStart
    \/ MatchEnd
    \/ MatchNeither
    \/ MatchReturn
    \/ NextReport

Next ==
    \/ ParseSkipShort
    \/ ParseUnpackError
    \/ ParseSkipBadTime
    \/ ParseAppend
    \/ ParseCsvError
    \/ ParseReturn
    \/ NextJobs

\* main() on a batch of raw lines
Spec == Init /\ [][Next]_vars

\* monitor_jobs, then log_report, on a batch of entries
SpecJobs == InitJobs /\ [][NextJobs]_vars

\* log_report on a batch of job reports
SpecReport == InitReport /\ [][NextReport]_vars

NextCalls ==
    \/ NextJobs
    \/ MonitorJobsAgain

\* monitor_jobs, then log_report, called any number of times
SpecCalls == InitCalls /\ [][NextCalls]_vars

----------------------------------------------------------------------------
(* Properties of monitor_jobs.  They speak of the entries processed so     *)
(* far, entries[1..k-1], and never of the open-jobs mapping.               *)

Processed == k - 1
SamePid(es, a, b) == es[a].pid = es[b].pid

\* the START at s is followed, before any later START for its pid, by an END
\* for its pid among the first n entries
MatchedStart(es, n, s) ==
    /\ es[s].event = START
    /\ \E e \in (s + 1)..n :
          /\ es[e].event = END
          /\ SamePid(es, s, e)
          /\ \A m \in (s + 1)..(e - 1) : ~(SamePid(es, s, m) /\ es[m].event = START)

\* the END at e closes the START at s: nothing for that pid opens or closes between
Closes(es, s, e) ==
    /\ s < e
    /\ es[s].event = START
    /\ es[e].event = END
    /\ SamePid(es, s, e)
    /\ \A m \in (s + 1)..(e - 1) : ~(SamePid(es, s, m) /\ es[m].event \in {START, END})

OrphanEnd(es, e) == es[e].event = END /\ ~\E s \in 1..(e - 1) : Closes(es, s, e)

InMatcher == pc \in {"match", "open", "report", "done"} \/ (pc = "aborted" /\ err = "OSError")

\* C1: monitor_jobs emits exactly one CompletedJob per START that is followed,
\* before any later START for the same pid, by an END for the same pid; unmatched
\* STARTs and orphan ENDs add nothing: for every pid, the number of CompletedJobs
\* equals the number of such STARTs among the entries processed.
C1_OneJobPerMatchedStart ==
    InMatcher =>
        /\ Len(reports) =
              Cardinality({s \in 1..Processed : MatchedStart(entries, Processed, s)})
        /\ \A q \in 1..Processed :
              Cardinality({i \in 1..Len(reports) : reports[i].pid = entries[q].pid}) =
              Cardinality({s \in 1..Processed : /\ MatchedStart(entries, Processed, s)
                                                /\ SamePid(entries, s, q)})

\* C1 witness: monitor_jobs has returned after a matched pair, an unmatched START
\* and an orphan END
C1_Witness ==
    /\ pc = "open"
    /\ Len(reports) = 1
    /\ \E s \in 1..Len(entries) : MatchedStart(entries, Len(entries), s)
    /\ \E s \in 1..Len(entries) :
          entries[s].event = START /\ ~MatchedStart(entries, Len(entries), s)
    /\ \E e \in 1..Len(entries) : OrphanEnd(entries, e)

----------------------------------------------------------------------------
\* the step of monitor_jobs that handles entries[k]
MatcherStep == pc = "match" /\ k <= Len(entries) /\ k' = k + 1

\* s1 and s2 are STARTs for the pid of the END at e, s2 the later one, with no
\* END for the pid between s1 and e and no START for it between s2 and e
TwoStartsThenEnd(es, s1, s2, e) ==
    /\ s1 < s2 /\ s2 < e
    /\ es[s1].event = START /\ es[s2].event = START /\ es[e].event = END
    /\ SamePid(es, s1, e) /\ SamePid(es, s2, e)
    /\ \A m \in (s1 + 1)..(e - 1) : ~(SamePid(es, m, e) /\ es[m].event = END)
    /\ \A m \in (s2 + 1)..(e - 1) : ~(SamePid(es, m, e) /\ es[m].event = START)

C2_Step ==
    MatcherStep =>
        \* a START for a pid whose last START is still unmatched reports nothing
        /\ (/\ entries[k].event = START
            /\ \E s1 \in 1..(k - 1) :
                  /\ entries[s1].event = START /\ SamePid(entries, s1, k)
                  /\ \A m \in (s1 + 1)..(k - 1) :
                        ~(SamePid(entries, m, k) /\ entries[m].event = END))
           => /\ reports' = reports
              /\ jobs'[entries[k].pid] =
                    [start_time |-> entries[k].time, description |-> entries[k].description]
        \* the END after two such STARTs reports exactly one job: the second START's
        /\ \A s1, s2 \in 1..(k - 1) :
              TwoStartsThenEnd(entries, s1, s2, k) =>
                 /\ Len(reports') = Len(reports) + 1
                 /\ SubSeq(reports', 1, Len(reports)) = reports
                 /\ reports'[Len(reports')].start_time = entries[s2].time
                 /\ reports'[Len(reports')].description = entries[s2].description

\* C2: last START wins: a second START for a pid with no END for it in between
\* overwrites the first START's open job without reporting it, and the next END
\* for the pid emits one CompletedJob with the second START's time and
\* description.
C2_LastStartWins == [][C2_Step]_vars

\* C2 witness: START, START, END for one pid, the STARTs differing in time and
\* description, have been handled and one job is reported
C2_Witness ==
    /\ pc = "open"
    /\ Len(reports) = 1
    /\ \E s1, s2, e \in 1..Len(entries) :
          /\ TwoStartsThenEnd(entries, s1, s2, e)
          /\ entries[s1].time # entries[s2].time
          /\ entries[s1].description # entries[s2].description
          /\ reports[1].start_time = entries[s2].time

\* C7: an END whose pid has no open job (no START for it before, or the START
\* already consumed by an earlier END) is ignored: no CompletedJob, no error,
\* the open jobs and the emitted CompletedJobs unchanged.
C7_OrphanEndIgnored ==
    [][(MatcherStep /\ OrphanEnd(entries, k)) =>
          (reports' = reports /\ jobs' = jobs /\ pc' = "match" /\ err' = "none")]_vars

\* C7 witness: monitor_jobs has returned after an END with no START before it
\* and an END whose START an earlier END had consumed
C7_Witness ==
    /\ pc = "open"
    /\ \E e \in 1..Len(entries) :
          /\ entries[e].event = END
          /\ ~\E s \in 1..(e - 1) : entries[s].event = START /\ SamePid(entries, s, e)
    /\ \E s, e1, e2 \in 1..Len(entries) :
          /\ Closes(entries, s, e1) /\ e1 < e2 /\ SamePid(entries, s, e2)
          /\ OrphanEnd(entries, e2)

----------------------------------------------------------------------------
(* Properties of log_report.  Handled == j - 1 jobs have been through the  *)
(* loop once the file is open.                                             *)

InReportLoop == pc \in {"report", "done"}
Handled == j - 1

\* the severities log_report is to write for the first n jobs, in order:
\* nothing up to the warning threshold, WARNING up to the error threshold,
\* ERROR above it
RECURSIVE Severities(_, _)
Severities(rs, n) ==
    IF n = 0 THEN <<>>
    ELSE Severities(rs, n - 1) \o
         (IF rs[n].duration <= WARNING_THRESHOLD THEN <<>>
          ELSE IF rs[n].duration <= ERROR_THRESHOLD THEN <<"WARNING">>
          ELSE <<"ERROR">>)

\* C3: log_report writes at most one line per job, by strict comparison:
\* duration <= 5 min no line, 5 min < duration <= 10 min one WARNING line,
\* duration > 10 min one ERROR line; exactly 5 min gives no line and exactly
\* 10 min gives WARNING.
C3_StrictThresholds ==
    InReportLoop =>
        /\ [i \in 1..Len(file) |-> file[i][1]] = Severities(reports, Handled)
        /\ \A n \in 1..Handled :
              /\ reports[n].duration = 300 => Severities(reports, n) = Severities(reports, n - 1)
              /\ reports[n].duration = 600 =>
                    Severities(reports, n) = Severities(reports, n - 1) \o <<"WARNING">>

\* C3 witness: log_report is done with jobs of exactly 5 minutes, exactly 10
\* minutes and more than 10 minutes
C3_Witness ==
    /\ pc = "done"
    /\ Len(reports) = 3
    /\ reports[1].duration = 300 /\ reports[2].duration = 600 /\ reports[3].duration = 601
    /\ Len(file) = 2
    /\ file[1][1] = "WARNING" /\ file[2][1] = "ERROR"

\* H:MM:SS of d seconds: the hours unpadded, minutes and seconds on two digits
HMS(d) ==
    NatStr(d \div 3600) \o <<":">> \o Pad2((d % 3600) \div 60) \o <<":">> \o Pad2(d % 60)

\* C9: every line log_report writes renders the job's duration d as H:MM:SS
\* with H = d div 3600, MM = (d mod 3600) div 60, SS = d mod 60; 360 seconds
\* is written 0:06:00 and 660 seconds 0:11:00.
C9_DurationFormat ==
    [][(pc = "report" /\ Len(file') = Len(file) + 1) =>
          LET d == reports[j].duration
              written == file'[Len(file')][7]
          IN  /\ written = HMS(d)
              /\ d = 360 => written = <<"0", ":", "0", "6", ":", "0", "0">>
              /\ d = 660 => written = <<"0", ":", "1", "1", ":", "0", "0">>
              /\ d = 86399 => written = <<"2", "3", ":", "5", "9", ":", "5", "9">>]_vars

\* C9 witness: log_report is done and has written the lines of jobs of 360,
\* 660 and 86399 seconds
C9_Witness ==
    /\ pc = "done"
    /\ Len(reports) = 3
    /\ reports[1].duration = 360 /\ reports[2].duration = 660 /\ reports[3].duration = 86399
    /\ Len(file) = 3
    /\ file[1][7] = <<"0", ":", "0", "6", ":", "0", "0">>

----------------------------------------------------------------------------
(* Properties of parse_log                                                 *)

\* the pass of parse_log's loop that handles the row starting at lines[pos]
ParserStep == pc = "parse" /\ NextRow.what = "row"

\* the entry the first four fields of a row stand for
EntryOf(row) ==
    [time        |-> strptime(strip(row[1])),
     description |-> strip(row[2]),
     event       |-> upper(strip(row[3])),
     pid         |-> strip(row[4])]

HasValidTime(row) == Len(row) >= 1 /\ strptime(strip(row[1])) # ValueError

\* C4: a line that yields more than four fields is not malformed: parse_log
\* consumes its first four fields, ignores the rest and produces a LogEntry.
C4_ExtraFieldsIgnored ==
    [][(ParserStep /\ Len(NextRow.row) > 4 /\ HasValidTime(NextRow.row)) =>
          (/\ entries' = Append(entries, EntryOf(NextRow.row))
           /\ pc' = "parse"
           /\ err' = "none")]_vars

\* C5: main() on any batch of lines runs to completion whatever the records
\* hold; the only fatal outcome is an I/O failure.
C5_OnlyIoFailureIsFatal == pc = "aborted" => err = "OSError"

\* the row a line gives when it is read on its own
RowOfLine(line) == Reader_next(<<line>>, 1)

FewerThanFourFields(line) ==
    RowOfLine(line).what \in {"row", "stop"} /\ Len(RowOfLine(line).row) < 4

InvalidTimeField(line) ==
    RowOfLine(line).what = "row" /\ ~HasValidTime(RowOfLine(line).row)

\* C6: a line with fewer than 4 comma-separated fields, or whose first field
\* is no valid HH:MM:SS time, produces no entry and is skipped without
\* raising, and the lines after it are still parsed: the pass that reads it
\* leaves the entries as they are, raises nothing and goes on with the very
\* next line.
C6_MalformedLineSkipped ==
    [][(/\ pc = "parse"
        /\ pos <= Len(lines)
        /\ FewerThanFourFields(lines[pos]) \/ InvalidTimeField(lines[pos]))
       => (entries' = entries /\ pc' = "parse" /\ err' = "none" /\ pos' = pos + 1)]_vars

\* C8: for every valid record (at least four fields, valid time) parse_log
\* produces the LogEntry with the record's time, its description and pid
\* trimmed, and its event trimmed and uppercased.
C8_ValidRecordRoundTrip ==
    [][(ParserStep /\ Len(NextRow.row) >= 4 /\ HasValidTime(NextRow.row)) =>
          (/\ Len(entries') = Len(entries) + 1
           /\ entries'[Len(entries')].time = strptime(strip(NextRow.row[1]))
           /\ entries'[Len(entries')].description = strip(NextRow.row[2])
           /\ entries'[Len(entries')].event = upper(strip(NextRow.row[3]))
           /\ entries'[Len(entries')].pid = strip(NextRow.row[4]))]_vars

\* a line is malformed when it does not yield four fields or its time field
\* does not parse; every other line that yields a row is well-formed
MalformedLine(line) == FewerThanFourFields(line) \/ InvalidTimeField(line)
WellFormedLine(line) == RowOfLine(line).what = "row" /\ ~MalformedLine(line)

\* the indices of the well-formed lines among the first n, in input order
RECURSIVE WellFormedIndices(_, _)
WellFormedIndices(ls, n) ==
    IF n = 0 THEN <<>>
    ELSE WellFormedIndices(ls, n - 1) \o (IF WellFormedLine(ls[n]) THEN <<n>> ELSE <<>>)

ParseLogOver == pc # "parse"

\* C10: the entries parse_log returns are in the order of the lines that
\* produced them, and a malformed line removes only itself: once parse_log is
\* over, the entries are those of the well-formed lines, each from its own
\* line, in input order.
C10_OrderKeptMalformedLocal ==
    ParseLogOver =>
        /\ err \notin {"ValueError", "csv.Error"}
        /\ entryLine = WellFormedIndices(lines, Len(lines))
        /\ \A i \in 1..Len(entries) : entries[i] = EntryOf(RowOfLine(lines[entryLine[i]]).row)

----------------------------------------------------------------------------
(* Further properties of monitor_jobs                                      *)

\* the ENDs among the first n entries that close a START, in input order
RECURSIVE ClosingEnds(_, _)
ClosingEnds(es, n) ==
    IF n = 0 THEN <<>>
    ELSE ClosingEnds(es, n - 1) \o
         (IF \E s \in 1..(n - 1) : Closes(es, s, n) THEN <<n>> ELSE <<>>)

\* the CompletedJobs are those of the closing ENDs, in the order of the ENDs
OrderedByEnd ==
    LET ends == ClosingEnds(entries, Processed)
    IN  /\ Len(reports) = Len(ends)
        /\ \A i \in 1..Len(reports) :
              /\ reports[i].pid = entries[ends[i]].pid
              /\ reports[i].end_time = entries[ends[i]].time

\* C11: the CompletedJobs are ordered by the position of their END entries
\* (not by START position, pid or duration), and a CompletedJob once emitted
\* is never removed, reordered or changed by later entries.
C11_EndOrderAppendOnly ==
    [][(pc = "match") =>
          /\ OrderedByEnd'
          /\ Len(reports') >= Len(reports)
          /\ SubSeq(reports', 1, Len(reports)) = reports]_vars

\* C11 witness: monitor_jobs has returned two jobs whose STARTs came in the
\* other order than their ENDs
C11_Witness ==
    /\ pc = "open"
    /\ Len(reports) = 2
    /\ \E s1, s2, e2, e1 \in 1..Len(entries) :
          /\ s1 < s2 /\ s2 < e2 /\ e2 < e1
          /\ Closes(entries, s1, e1) /\ Closes(entries, s2, e2)
          /\ reports[1].pid = entries[e2].pid
          /\ reports[2].pid = entries[e1].pid
          /\ reports[1].pid # reports[2].pid

----------------------------------------------------------------------------
\* C12: every CompletedJob emitted on an END entry has that entry's pid, that
\* entry's timestamp as end_time, the start_time and description of the START
\* entry it closes (never the END entry's), and duration = end_time -
\* start_time; the pid leaves the open-jobs mapping in the same step.
C12_JobFields ==
    [][(MatcherStep /\ Len(reports') > Len(reports)) =>
          /\ Len(reports') = Len(reports) + 1
          /\ entries[k].event = END
          /\ entries[k].pid \notin DOMAIN jobs'
          /\ \E s \in 1..(k - 1) :
                /\ Closes(entries, s, k)
                /\ reports'[Len(reports')] =
                      [pid         |-> entries[k].pid,
                       description |-> entries[s].description,
                       start_time  |-> entries[s].time,
                       end_time    |-> entries[k].time,
                       duration    |-> entries[k].time - entries[s].time]]_vars

\* C12 witness: monitor_jobs has returned a job whose END entry carried
\* another description than its START entry
C12_Witness ==
    /\ pc = "open"
    /\ \E s, e \in 1..Len(entries) :
          /\ Closes(entries, s, e)
          /\ entries[s].description # entries[e].description
          /\ \E i \in 1..Len(reports) :
                /\ reports[i].pid = entries[e].pid
                /\ reports[i].end_time = entries[e].time
                /\ reports[i].description = entries[s].description
          /\ entries[e].pid \notin DOMAIN jobs

\* C14: a job whose END timestamp is earlier than its START timestamp gets a
\* negative duration, propagated unchanged into the CompletedJob, and
\* log_report writes no line for it.
C14_NegativeDuration ==
    [][/\ (MatcherStep /\ \E s \in 1..(k - 1) :
                             Closes(entries, s, k) /\ entries[k].time < entries[s].time)
          => /\ Len(reports') = Len(reports) + 1
             /\ reports'[Len(reports')].duration < 0
             /\ \E s \in 1..(k - 1) :
                   /\ Closes(entries, s, k)
                   /\ reports'[Len(reports')].duration = entries[k].time - entries[s].time
       /\ (pc = "report" /\ j <= Len(reports)
              /\ reports[j].end_time < reports[j].start_time)
          => (file' = file /\ j' = j + 1 /\ pc' = "report" /\ err' = "none")]_vars

\* C14 witness: log_report is done with a job that ended before it started
\* and has written nothing
C14_Witness ==
    /\ pc = "done"
    /\ Len(reports) = 1
    /\ reports[1].end_time < reports[1].start_time
    /\ reports[1].duration = reports[1].end_time - reports[1].start_time
    /\ reports[1].duration < 0
    /\ file = <<>>

----------------------------------------------------------------------------
IsStartOrEnd(entry) == entry.event \in {START, END}

\* C13: an entry whose event is neither START nor END is a no-op: it leaves
\* the open jobs and the emitted CompletedJobs unchanged, so the output of
\* monitor_jobs is its output on the entries with such entries removed.
C13_OtherEventNoOp ==
    [][/\ (MatcherStep /\ ~IsStartOrEnd(entries[k]))
          => (jobs' = jobs /\ reports' = reports /\ pc' = "match" /\ err' = "none")
       /\ (pc = "match" /\ pc' = "open")
          => reports' = monitor_jobs(SelectSeq(entries, IsStartOrEnd))]_vars

\* C13 witness: monitor_jobs has returned a job after an entry of another
\* event for the job's pid came between its START and its END
C13_Witness ==
    /\ pc = "open"
    /\ Len(reports) >= 1
    /\ \E s, m, e \in 1..Len(entries) :
          /\ s < m /\ m < e
          /\ Closes(entries, s, e)
          /\ ~IsStartOrEnd(entries[m])
          /\ SamePid(entries, s, m)

----------------------------------------------------------------------------
\* C15: the open-jobs mapping starts empty in every call of monitor_jobs and is
\* not carried between calls: a START left open at the end of one call gives no
\* output, and an END of a later call cannot match it (the output of a call is
\* that of monitor_jobs on the entries of this call alone).
C15_MappingPerCall ==
    [][/\ (pc # "match" /\ pc' = "match") => (DOMAIN jobs' = {} /\ reports' = <<>>)
       /\ (MatcherStep /\ OrphanEnd(entries, k)) => reports' = reports
       /\ (pc = "match" /\ pc' = "open") =>
             /\ reports' = monitor_jobs(entries)
             /\ Len(reports') =
                   Cardinality({s \in 1..Len(entries) :
                                   MatchedStart(entries, Len(entries), s)})]_vars

\* C15 witness: a later call has returned nothing for an END whose pid the
\* call before had left open
C15_Witness ==
    /\ prev.later
    /\ pc = "open"
    /\ reports = <<>>
    /\ \E e \in 1..Len(entries) :
          /\ entries[e].event = END
          /\ entries[e].pid \in prev.open

----------------------------------------------------------------------------
(* Further properties of log_report                                        *)

\* the jobs among the first n whose duration exceeds the warning threshold,
\* in input order
RECURSIVE OverWarning(_, _)
OverWarning(rs, n) ==
    IF n = 0 THEN <<>>
    ELSE OverWarning(rs, n - 1) \o
         (IF rs[n].duration > WARNING_THRESHOLD THEN <<n>> ELSE <<>>)

\* the line is the one of the job: its pid, its description, its duration
LineOfJob(line, job) ==
    /\ line[1] \in {"WARNING", "ERROR"}
    /\ line[3] = job.pid
    /\ line[5] = job.description
    /\ line[7] = HMS(job.duration)

\* the file holds the lines of the first n jobs over the warning threshold,
\* one each, in the order of the jobs, and nothing else
FileHoldsLinesOf(n) ==
    LET over == OverWarning(reports, n)
    IN  /\ Len(file) = Len(over)
        /\ \A i \in 1..Len(file) : LineOfJob(file[i], reports[over[i]])

\* C16: the lines written appear in the order of the CompletedJobs that
\* produced them, unsorted: they are the in-order subsequence of the jobs
\* whose duration exceeds the warning threshold.
C16_LinesInJobOrder == InReportLoop => FileHoldsLinesOf(Handled)

\* C16 witness: log_report is done with an ERROR job, a WARNING job and a
\* longer ERROR job, in that order, and has written three lines
C16_Witness ==
    /\ pc = "done"
    /\ Len(reports) = 3
    /\ reports[1].duration > ERROR_THRESHOLD
    /\ reports[2].duration > WARNING_THRESHOLD /\ reports[2].duration <= ERROR_THRESHOLD
    /\ reports[3].duration > reports[1].duration
    /\ Len(file) = 3
    /\ file[1][1] = "ERROR" /\ file[2][1] = "WARNING" /\ file[3][1] = "ERROR"

\* C17: the report file is rewritten on every run: after any sequence of
\* log_report calls on the same file its content is exactly the lines of the
\* last call, empty when the last call has no job over the warning threshold,
\* never an accumulation of earlier runs.
C17_FileRewritten ==
    /\ (pc = "report" /\ j = 1) => file = <<>>
    /\ pc = "done" =>
          /\ FileHoldsLinesOf(Len(reports))
          /\ (\A i \in 1..Len(reports) : reports[i].duration <= WARNING_THRESHOLD)
                => file = <<>>

\* C17 witness: an earlier call left a line in the file, and the last call,
\* with no job over the warning threshold, has left the file empty
C17_Witness ==
    /\ prev.later
    /\ prev.file # <<>>
    /\ pc = "done"
    /\ file = <<>>

----------------------------------------------------------------------------
(* The open-jobs mapping and the pids                                      *)

PidsOf(es) == {es[i].pid : i \in 1..Len(es)}

\* the most recent START-or-END entry for pid p among the first n is the START at s
LastIsStartAt(es, n, p, s) ==
    /\ es[s].pid = p
    /\ es[s].event = START
    /\ \A m \in (s + 1)..n : ~(es[m].pid = p /\ es[m].event \in {START, END})

CountOf(es, n, p, event) ==
    Cardinality({i \in 1..n : es[i].pid = p /\ es[i].event = event})

\* C18: after any prefix of the entries a pid is in the open-jobs mapping if
\* and only if the most recent START-or-END entry for it in the prefix is a
\* START (whose data the mapping then holds), and the CompletedJobs emitted
\* for a pid number at most its START entries and at most its END entries.
C18_OpenIffLastIsStart ==
    InMatcher =>
        /\ DOMAIN jobs \subseteq PidsOf(entries)
        /\ \A p \in PidsOf(entries) :
              /\ p \in DOMAIN jobs <=>
                    \E s \in 1..Processed : LastIsStartAt(entries, Processed, p, s)
              /\ \A s \in 1..Processed :
                    LastIsStartAt(entries, Processed, p, s) =>
                       jobs[p] = [start_time  |-> entries[s].time,
                                  description |-> entries[s].description]
              /\ Cardinality({i \in 1..Len(reports) : reports[i].pid = p})
                    <= CountOf(entries, Processed, p, START)
              /\ Cardinality({i \in 1..Len(reports) : reports[i].pid = p})
                    <= CountOf(entries, Processed, p, END)

\* C18 witness: monitor_jobs has returned with one pid closed (START then END)
\* and another pid open again after its END (START, END, START)
C18_Witness ==
    /\ pc = "open"
    /\ Len(reports) = 1
    /\ \E p \in PidsOf(entries) :
          /\ p \in DOMAIN jobs
          /\ CountOf(entries, Len(entries), p, START) = 2
          /\ CountOf(entries, Len(entries), p, END) = 1
          /\ reports[1].pid = p

\* the entries, or the jobs, of pid p, in order
OfPid(seq, p) == LET IsOfPid(x) == x.pid = p IN SelectSeq(seq, IsOfPid)

\* C19: matching is independent across pids: an entry of one pid never opens,
\* overwrites, closes or alters a job of another pid, and the CompletedJobs of
\* pid p in the output equal the output of monitor_jobs on the entries of
\* pid p alone.
C19_PidsIndependent ==
    [][/\ MatcherStep =>
             /\ \A p \in (DOMAIN jobs \cup DOMAIN jobs') \ {entries[k].pid} :
                   p \in DOMAIN jobs /\ p \in DOMAIN jobs' /\ jobs'[p] = jobs[p]
             /\ \A p \in PidsOf(entries) \ {entries[k].pid} :
                   OfPid(reports', p) = OfPid(reports, p)
       /\ (pc = "match" /\ pc' = "open") =>
             \A p \in PidsOf(entries) :
                OfPid(reports', p) = monitor_jobs(OfPid(entries, p))]_vars

\* C19 witness: monitor_jobs has returned one job for each of two pids whose
\* entries were interleaved
C19_Witness ==
    /\ pc = "open"
    /\ Len(entries) = 4
    /\ entries[1].pid # entries[2].pid
    /\ Closes(entries, 1, 3)
    /\ Closes(entries, 2, 4)
    /\ Len(reports) = 2
    /\ reports[1].pid = entries[1].pid
    /\ reports[2].pid = entries[2].pid

====
